---------------------------- MODULE Spec2Model ----------------------------
(***************************************************************************)
(* neuron-cli: the note store (package db), the sync engine (`import`),    *)
(* the spaced-repetition scheduler (study.UpdateSRSData) and the review    *)
(* session (`review`), as one state machine.  Spec is the whole program;   *)
(* SpecSRS and SpecSRSLong run the scheduler alone, SpecSync the sync      *)
(* engine alone, SpecQuery the store's queries alone, SpecReuse the        *)
(* program from a store of one note.  SpecMix, SpecTeach, SpecWorkflow and *)
(* SpecGetDB run `mix`, `teach`, `workflow` and db.GetDB alone.            *)
(*                                                                         *)
(* Numbers.  note.Note.EaseFactor is a float64 that the program only ever  *)
(* changes by +0.15 and -0.2 from 2.5; it is kept here in hundredths       *)
(* (2.5 is 250).  note.Note.Interval is a float64 that holds whole days    *)
(* after every update; it is kept as an integer number of days.  Products  *)
(* are exact: the rounding of binary floating point is not modelled.       *)
(* A time.Duration is an int64 count of nanoseconds.  TLC's integers are   *)
(* 32 bits wide, so an instant or a duration is the pair                   *)
(* [day, sub]: `day` whole days plus `sub` units of 2^16 ns, with          *)
(* 0 <= sub < DayUnits (one day, 86400e9 ns, is exactly 2^16 * DayUnits).  *)
(***************************************************************************)
EXTENDS Integers, Sequences, FiniteSets, TLC

VARIABLES
    fs,          \* the directory tree: file |-> its contents, or NoFile
    notes,       \* the rows of table `notes`
    now,         \* the wall clock, time.Now()
    sess,        \* the `review` process: its position and the note it holds
    sync,        \* the `import` process: its position in the walk
    srsWritten,  \* history: ids of the rows an UpdateNoteSRS has written
    last,        \* history: the last operation and what it saw
    budget,      \* history: how many operations have run (the bounds cap
                 \* it); under SpecSync also the log of the import runs
    getdb,       \* package db's singleton and the goroutines calling GetDB
    teach,       \* the `teach` process: its chat history and position
    workflow,    \* the `workflow` process: the phase menu and its modes
    mix          \* the `mix` process: its notes, position and output

\* The processes of the other commands.
commands == <<getdb, teach, workflow, mix>>

vars == <<fs, notes, now, sess, sync, srsWritten, last, budget,
          getdb, teach, workflow, mix>>

---------------------------------------------------------------------------
(* Bounds of the model. *)

MaxRatings == 15      \* ratings in one run of SpecSRSLong
MaxSteps == 3         \* ratings in one run of SpecSRS
MaxEase == 265        \* no rating is explored from an ease factor above this
MaxInterval == 107000 \* no rating is explored from an interval above this
MaxNow == 1           \* the clock stops ticking at this day
MaxOps == 4           \* imports, reviews, edits and ticks in one run of Spec

---------------------------------------------------------------------------
(* Program constants. *)

RatingAgain == 1
RatingGood == 2
RatingEasy == 3
Ratings == {RatingAgain, RatingGood, RatingEasy}

DefaultInterval == 1
DefaultEaseFactor == 250
MinEaseFactor == 130
EaseStepAgain == 20
EaseStepEasy == 15
GrowthThreshold == 6
EarlyGrowth == 160

\* time.Hour * 24 in units of 2^16 ns
DayUnits == 1318359375
\* 2^64 ns = Int64SpanDays days + Int64SpanSub units
Int64SpanDays == 213503
Int64SpanSub == 1295070031
\* 2^63 ns = Int64HalfDays days + Int64HalfSub units
Int64HalfDays == 106751
Int64HalfSub == 1306714703

---------------------------------------------------------------------------
(* Instants and durations. *)

Time(d) == [day |-> d, sub |-> 0]

TimeLE(a, b) == a.day < b.day \/ (a.day = b.day /\ a.sub <= b.sub)

TimeAdd(t, d) ==
    IF t.sub >= DayUnits - d.sub
    THEN [day |-> t.day + d.day + 1, sub |-> t.sub - (DayUnits - d.sub)]
    ELSE [day |-> t.day + d.day, sub |-> t.sub + d.sub]

\* d - 2^64 ns
MinusInt64Span(d) ==
    IF d.sub >= Int64SpanSub
    THEN [day |-> d.day - Int64SpanDays, sub |-> d.sub - Int64SpanSub]
    ELSE [day |-> d.day - Int64SpanDays - 1,
          sub |-> d.sub + (DayUnits - Int64SpanSub)]

\* The int64 a product of nanosecond counts is stored in: values of 2^63 ns
\* and more wrap around to negative ones.
RECURSIVE WrapInt64(_)
WrapInt64(d) ==
    IF TimeLE([day |-> Int64HalfDays, sub |-> Int64HalfSub], d)
    THEN WrapInt64(MinusInt64Span(d))
    ELSE d

\* time.Hour * 24 * time.Duration(interval)
DurationOfDays(interval) == WrapInt64([day |-> interval, sub |-> 0])

CeilDiv(a, b) == (a + b - 1) \div b

Max(a, b) == IF a >= b THEN a ELSE b

---------------------------------------------------------------------------
(* The directory tree: directory a holds n1.md, the directory sub and     *)
(* t.txt; a/sub holds n2.MD.  An entry is [dir, base, ext].  The path the  *)
(* walk hands to the callback is filepath.Join(root, <name below root>):   *)
(* for a root given relative to the working directory, the entry's own     *)
(* relative path, whichever root the walk started from.                    *)

File(dir, base, ext) == [dir |-> dir, base |-> base, ext |-> ext]

SubDir == File("a", "sub", "")

\* os.FileInfo.IsDir
IsDir(e) == e = SubDir

\* The directory an entry that is a directory names.
DirName(e) == "a/sub"

\* The entries of each directory, in the lexical order readDirNames
\* returns them.
Children(dir) ==
    IF dir = "a"
    THEN << File("a", "n1", "md"), SubDir, File("a", "t", "txt") >>
    ELSE << File("a/sub", "n2", "MD") >>

Dirs == {"a", "a/sub"}

Files ==
    UNION {{Children(d)[i] : i \in 1..Len(Children(d))} : d \in Dirs}
        \ {SubDir}

\* The directories an import is started on.
Roots == Dirs

Path(root, f) == f

FileOf(path) == path

\* strings.ToLower on the extensions of the tree
ToLower(ext) == IF ext = "MD" THEN "md" ELSE ext

\* IsMarkdown without strings.ToLower.
IsMarkdownCaseSensitive(f) == f.ext = "md"

\* strings.HasSuffix(strings.ToLower(info.Name()), ".md")
IsMarkdown(f) == ToLower(f.ext) = "md"

NoFile ==
    [exists |-> FALSE, readable |-> FALSE, title |-> "", tags |-> <<>>,
     content |-> "", created_at |-> 0]

Contents ==
    { [exists |-> TRUE, readable |-> TRUE, title |-> "T1", tags |-> <<"go">>,
       content |-> "# T1", created_at |-> 1],
      [exists |-> TRUE, readable |-> TRUE, title |-> "T2", tags |-> <<>>,
       content |-> "# T2", created_at |-> 0],
      [exists |-> TRUE, readable |-> FALSE, title |-> "", tags |-> <<>>,
       content |-> "", created_at |-> 0] }

---------------------------------------------------------------------------
(* package note *)

NoNote ==
    [id |-> 0, filename |-> File("", "", ""), title |-> "", tags |-> <<>>,
     content |-> "", created_at |-> 0, due_date |-> Time(0), interval |-> 0,
     ease_factor |-> 0]

\* ParseFile with the first review scheduled a day after the parse.
ParseFileDueTomorrow(path, file, t) ==
    [id |-> 0, filename |-> path, title |-> file.title, tags |-> file.tags,
     content |-> file.content, created_at |-> file.created_at,
     due_date |-> TimeAdd(t, Time(1)), interval |-> DefaultInterval,
     ease_factor |-> DefaultEaseFactor]

\* ParseFile on a file that os.ReadFile can read: the note it returns (its
\* ID is Go's zero value; the store assigns the row's id).
ParseFile(path, file, t) ==
    [id |-> 0, filename |-> path, title |-> file.title, tags |-> file.tags,
     content |-> file.content, created_at |-> file.created_at,
     due_date |-> t, interval |-> DefaultInterval,
     ease_factor |-> DefaultEaseFactor]

---------------------------------------------------------------------------
(* package study *)

\* GrownInterval without its first branch.
GrownIntervalNoFloor(n) ==
    IF n.interval < GrowthThreshold
    THEN CeilDiv(n.interval * EarlyGrowth, 100)
    ELSE CeilDiv(n.interval * n.ease_factor, 100)

\* GrownInterval with the threshold test written <=.
GrownIntervalInclusive(n) ==
    IF n.interval < 1 THEN 1
    ELSE IF n.interval <= GrowthThreshold
         THEN CeilDiv(n.interval * EarlyGrowth, 100)
         ELSE CeilDiv(n.interval * n.ease_factor, 100)

\* GrownInterval with the early multiplier written 0.6.
GrownIntervalShrinking(n) ==
    IF n.interval < 1 THEN 1
    ELSE IF n.interval < GrowthThreshold
         THEN CeilDiv(n.interval * (EarlyGrowth - 100), 100)
         ELSE CeilDiv(n.interval * n.ease_factor, 100)

\* The interval a Good or an Easy rating computes.
GrownInterval(n) ==
    IF n.interval < 1 THEN 1
    ELSE IF n.interval < GrowthThreshold
         THEN CeilDiv(n.interval * EarlyGrowth, 100)
         ELSE CeilDiv(n.interval * n.ease_factor, 100)

\* UpdateSRSData without math.Max.
UpdateSRSDataNoMax(n, rating, t) ==
    LET interval ==
            IF rating = RatingAgain THEN 1 ELSE GrownInterval(n)
        ease ==
            IF rating = RatingAgain
            THEN n.ease_factor - EaseStepAgain
            ELSE IF rating = RatingEasy
                 THEN n.ease_factor + EaseStepEasy
                 ELSE n.ease_factor
    IN  [n EXCEPT !.interval = interval,
                  !.ease_factor = ease,
                  !.due_date = TimeAdd(t, DurationOfDays(interval))]

\* UpdateSRSData with Again leaving the interval as it is.
UpdateSRSDataNoReset(n, rating, t) ==
    LET interval ==
            IF rating = RatingAgain THEN n.interval ELSE GrownInterval(n)
        ease ==
            IF rating = RatingAgain
            THEN Max(MinEaseFactor, n.ease_factor - EaseStepAgain)
            ELSE IF rating = RatingEasy
                 THEN n.ease_factor + EaseStepEasy
                 ELSE n.ease_factor
    IN  [n EXCEPT !.interval = interval,
                  !.ease_factor = ease,
                  !.due_date = TimeAdd(t, DurationOfDays(interval))]

\* UpdateSRSData with the ease factor adjusted before the interval grows.
UpdateSRSDataEaseFirst(n, rating, t) ==
    LET ease ==
            IF rating = RatingAgain
            THEN Max(MinEaseFactor, n.ease_factor - EaseStepAgain)
            ELSE IF rating = RatingEasy
                 THEN n.ease_factor + EaseStepEasy
                 ELSE n.ease_factor
        interval ==
            IF rating = RatingAgain THEN 1
            ELSE GrownInterval([n EXCEPT !.ease_factor = ease])
    IN  [n EXCEPT !.interval = interval,
                  !.ease_factor = ease,
                  !.due_date = TimeAdd(t, DurationOfDays(interval))]

\* UpdateSRSData(n, rating) run at instant t: the note afterwards.
UpdateSRSData(n, rating, t) ==
    LET interval ==
            IF rating = RatingAgain THEN 1 ELSE GrownInterval(n)
        ease ==
            IF rating = RatingAgain
            THEN Max(MinEaseFactor, n.ease_factor - EaseStepAgain)
            ELSE IF rating = RatingEasy
                 THEN n.ease_factor + EaseStepEasy
                 ELSE n.ease_factor
    IN  [n EXCEPT !.interval = interval,
                  !.ease_factor = ease,
                  !.due_date = TimeAdd(t, DurationOfDays(interval))]

---------------------------------------------------------------------------
(* package db *)

\* The rowid SQLite gives a row inserted into an INTEGER PRIMARY KEY table
\* declared without AUTOINCREMENT: one more than the largest in use.
NextRowid(rows) ==
    IF rows = {} THEN 1
    ELSE (CHOOSE m \in {r.id : r \in rows} :
              \A r \in rows : r.id <= m) + 1

\* InsertNote as INSERT OR REPLACE: the conflicting row is rewritten whole.
InsertNoteReplace(rows, n) ==
    IF \E r \in rows : r.filename = n.filename
    THEN { IF r.filename = n.filename THEN [n EXCEPT !.id = r.id] ELSE r :
           r \in rows }
    ELSE rows \cup {[n EXCEPT !.id = NextRowid(rows)]}

\* InsertNote as a plain INSERT into a table without the UNIQUE constraint.
InsertNoteAlways(rows, n) == rows \cup {[n EXCEPT !.id = NextRowid(rows)]}

\* InsertNote with due_date = excluded.due_date added to the DO UPDATE.
InsertNoteReschedule(rows, n) ==
    IF \E r \in rows : r.filename = n.filename
    THEN { IF r.filename = n.filename
           THEN [r EXCEPT !.title = n.title, !.tags = n.tags,
                          !.content = n.content,
                          !.created_at = n.created_at,
                          !.due_date = n.due_date]
           ELSE r : r \in rows }
    ELSE rows \cup {[n EXCEPT !.id = NextRowid(rows)]}

\* INSERT ... ON CONFLICT(filename) DO UPDATE SET title, tags, content,
\* created_at: the table afterwards.
InsertNote(rows, n) ==
    IF \E r \in rows : r.filename = n.filename
    THEN { IF r.filename = n.filename
           THEN [r EXCEPT !.title = n.title, !.tags = n.tags,
                          !.content = n.content,
                          !.created_at = n.created_at]
           ELSE r : r \in rows }
    ELSE rows \cup {[n EXCEPT !.id = NextRowid(rows)]}

\* GetDueNote without its ORDER BY clause.
GetDueNoteUnordered(rows, t) == {r \in rows : TimeLE(r.due_date, t)}

\* SELECT ... WHERE due_date <= ? ORDER BY due_date ASC LIMIT 1: the rows
\* the query may return (none: sql.ErrNoRows).
GetDueNote(rows, t) ==
    { r \in rows :
        /\ TimeLE(r.due_date, t)
        /\ \A q \in rows :
               TimeLE(q.due_date, t) => TimeLE(r.due_date, q.due_date) }

\* SELECT ... ORDER BY RANDOM() LIMIT 1
GetAnyNote(rows) == rows

Min(a, b) == IF a <= b THEN a ELSE b

\* WHERE due_date <= ?
Due(rows, t) == {r \in rows : TimeLE(r.due_date, t)}

\* ORDER BY RANDOM(): the orders the rows may come in.
OrderByRandom(rows) ==
    { s \in [1..Cardinality(rows) -> rows] :
        \A i, j \in 1..Cardinality(rows) : s[i] = s[j] => i = j }

\* ORDER BY due_date ASC in the place of ORDER BY RANDOM().
OrderByDueDate(rows) ==
    { s \in [1..Cardinality(rows) -> rows] :
        /\ \A i, j \in 1..Cardinality(rows) : s[i] = s[j] => i = j
        /\ \A i, j \in 1..Cardinality(rows) :
               (i < j /\ s[i].due_date # s[j].due_date)
                   => TimeLE(s[i].due_date, s[j].due_date) }

\* LIMIT ? with a limit of 0 or more
Limit(s, limit) == SubSeq(s, 1, Min(limit, Len(s)))

\* GetDueNotes with the rows ordered by due date.
GetDueNotesEarliest(rows, t, limit) ==
    {Limit(s, limit) : s \in OrderByDueDate(Due(rows, t))}

\* SELECT ... WHERE due_date <= ? ORDER BY RANDOM() LIMIT ?: the slices the
\* query may return (the empty one, with a nil error, when nothing is due).
GetDueNotes(rows, t, limit) ==
    {Limit(s, limit) : s \in OrderByRandom(Due(rows, t))}

\* The bytes of the strings that titles, paths and search terms are made of.
Chars(str) ==
    CASE str = "" -> <<>>
      [] str = "a" -> <<"a">>
      [] str = "b" -> <<"b">>
      [] str = "a/sub" -> <<"a", "/", "s", "u", "b">>
      [] str = "n1" -> <<"n", "1">>
      [] str = "n2" -> <<"n", "2">>
      [] str = "x_y" -> <<"x", "_", "y">>
      [] str = "md" -> <<"m", "d">>
      [] str = "MD" -> <<"M", "D">>
      [] str = "txt" -> <<"t", "x", "t">>
      [] str = "T1" -> <<"T", "1">>
      [] str = "T2" -> <<"T", "2">>
      [] str = "t2" -> <<"t", "2">>
      [] str = "50%" -> <<"5", "0", "%">>
      [] str = "t1" -> <<"t", "1">>
      [] str = "zz" -> <<"z", "z">>
      [] str = "_" -> <<"_">>
      [] str = "%" -> <<"%">>

\* A stored filename as text: filepath.Join of the directory and the name.
PathText(f) ==
    Chars(f.dir) \o <<"/">> \o Chars(f.base) \o <<".">> \o Chars(f.ext)

\* SQLite compares the ASCII letters of a LIKE without regard to case.
Fold(c) ==
    CASE c = "T" -> "t"
      [] c = "M" -> "m"
      [] c = "D" -> "d"
      [] OTHER -> c

RECURSIVE Like(_, _)
\* text LIKE pattern, with no ESCAPE clause: % stands for any run of
\* characters, _ for any one character.
Like(pattern, text) ==
    IF pattern = <<>> THEN text = <<>>
    ELSE IF Head(pattern) = "%"
    THEN \/ Like(Tail(pattern), text)
         \/ text # <<>> /\ Like(pattern, Tail(text))
    ELSE /\ text # <<>>
         /\ Head(pattern) = "_" \/ Fold(Head(pattern)) = Fold(Head(text))
         /\ Like(Tail(pattern), Tail(text))

\* SELECT ... WHERE title LIKE ? OR filename LIKE ? LIMIT 1, both parameters
\* "%" + searchTerm + "%": the rows the query may return (none:
\* sql.ErrNoRows).
GetNoteByTitleOrFilename(rows, searchTerm) ==
    LET pattern == <<"%">> \o Chars(searchTerm) \o <<"%">>
    IN  { r \in rows :
            \/ Like(pattern, Chars(r.title))
            \/ Like(pattern, PathText(r.filename)) }

\* UpdateNoteSRS as an UPDATE that writes every column of the note it is
\* handed.
UpdateNoteSRSWholeRow(rows, n) ==
    { IF r.id = n.id THEN n ELSE r : r \in rows }

\* UPDATE notes SET due_date, interval, ease_factor WHERE id = ?
UpdateNoteSRS(rows, n) ==
    { IF r.id = n.id
      THEN [r EXCEPT !.due_date = n.due_date, !.interval = n.interval,
                     !.ease_factor = n.ease_factor]
      ELSE r : r \in rows }

NoError == "nil"

ErrNoRows == "sql.ErrNoRows"

WalkError == "error walking the path"

\* The error UpdateNoteSRS returns: that of database.Exec, which is nil for
\* an UPDATE that ran, however many rows its WHERE clause matched.
UpdateNoteSRSErr(rows, n) == NoError

---------------------------------------------------------------------------
(* `neuron review`: reviewCmd.RunE, in the two steps the user's typing     *)
(* separates: the fetch, and the rating with its update.                   *)

Idle == [pc |-> "idle", note |-> NoNote]

NothingDueMessage == "No notes are due for review. Great job!"

NoNotesMessage == "You have no notes in your database to review!"

\* ReviewStart without the test for sql.ErrNoRows: the command goes on to
\* the question with the note it did not get.
ReviewStartFallThrough(any) ==
    /\ sess.pc = "idle"
    /\ LET found == IF any THEN GetAnyNote(notes) ELSE GetDueNote(notes, now)
       IN  IF found = {}
           THEN /\ sess' = [pc |-> "asked", note |-> NoNote]
                /\ last' = [op |-> "review", seq |-> budget.ops,
                            any |-> any, found |-> FALSE,
                            err |-> NoError, out |-> ""]
           ELSE \E n \in found :
                    /\ sess' = [pc |-> "asked", note |-> n]
                    /\ last' = [op |-> "review", seq |-> budget.ops,
                                any |-> any, found |-> TRUE,
                                err |-> NoError, out |-> ""]
    /\ UNCHANGED <<fs, notes, now, sync, srsWritten>>

\* The fetch.  Nothing found (sql.ErrNoRows): the command prints its
\* message and returns nil.  A note found: the command goes on to
\* study.GenerateQuestion and study.GenerateAnswer and asks for the rating.
ReviewStart(any) ==
    /\ sess.pc = "idle"
    /\ LET found == IF any THEN GetAnyNote(notes) ELSE GetDueNote(notes, now)
       IN  IF found = {}
           THEN /\ sess' = sess
                /\ last' = [op |-> "review", seq |-> budget.ops,
                            any |-> any, found |-> FALSE,
                            err |-> NoError,
                            out |-> IF any THEN NoNotesMessage
                                    ELSE NothingDueMessage]
           ELSE \E n \in found :
                    /\ sess' = [pc |-> "asked", note |-> n]
                    /\ last' = [op |-> "review", seq |-> budget.ops,
                                any |-> any, found |-> TRUE,
                                err |-> NoError, out |-> ""]
    /\ UNCHANGED <<fs, notes, now, sync, srsWritten>>

\* study.GenerateQuestion or study.GenerateAnswer fails: the command returns
\* the error before any rating.
ReviewAbort ==
    /\ sess.pc = "asked"
    /\ sess' = Idle
    /\ last' = [op |-> "reviewFailed"]
    /\ UNCHANGED <<fs, notes, now, sync, srsWritten>>

\* The user rates: study.UpdateSRSData, then db.UpdateNoteSRS.
ReviewRate(rating) ==
    /\ sess.pc = "asked"
    /\ LET n == UpdateSRSData(sess.note, rating, now)
       IN  /\ notes' = UpdateNoteSRS(notes, n)
           /\ srsWritten' =
                  srsWritten \cup {r.id : r \in {q \in notes : q.id = n.id}}
           /\ last' = [op |-> "UpdateSRSData", rating |-> rating,
                       pre |-> sess.note, post |-> n, at |-> now,
                       hit |-> \E q \in notes : q.id = n.id,
                       err |-> UpdateNoteSRSErr(notes, n)]
    /\ sess' = Idle
    /\ UNCHANGED <<fs, now, sync>>

NoSync ==
    [pc |-> "idle", root |-> "", strict |-> FALSE, todo |-> <<>>,
     found |-> {}, imported |-> 0]

NoBudget == [ratings |-> 0, ops |-> 0]

\* The other commands before they are run.
NoGetDB == [pc |-> "idle"]

NoTeach ==
    [pc |-> "idle", messages |-> <<>>, requests |-> 0, prompts |-> 0]

NoWorkflow == [pc |-> "idle", phase |-> "", menus |-> 0]

NoMix == [pc |-> "idle", cards |-> <<>>, out |-> <<>>, calls |-> 0]

CommandsIdle ==
    /\ getdb = NoGetDB
    /\ teach = NoTeach
    /\ workflow = NoWorkflow
    /\ mix = NoMix

---------------------------------------------------------------------------
(* `neuron import <root>`: importCmd.RunE.  The command with the cleanup   *)
(* pass (strict) and the earlier one without it are both modelled.  A run  *)
(* is a step per file the walk visits and a last step after the walk;      *)
(* other processes (a review waiting for its rating, an editor) may act in *)
(* between.                                                                *)

RECURSIVE Existing(_)
\* The entries of a directory listing that exist (the directories do).
Existing(entries) ==
    IF entries = <<>> THEN <<>>
    ELSE LET e == Head(entries)
         IN  IF IsDir(e) \/ fs[e].exists
             THEN <<e>> \o Existing(Tail(entries))
             ELSE Existing(Tail(entries))

\* readDirNames(dir): the names filepath.Walk reads when it enters dir.
readDirNames(dir) == Existing(Children(dir))

SyncStart(root, strict) ==
    /\ sync.pc = "idle"
    /\ sync' = [pc |-> "walk", root |-> root, strict |-> strict,
                todo |-> readDirNames(root),
                found |-> {}, imported |-> 0]
    /\ last' = [op |-> "importStart"]
    /\ UNCHANGED <<fs, notes, now, sess, srsWritten>>

\* Visit with a path tracked only once its note is stored.
VisitTrackSynced(s, path, outcome) ==
    [s EXCEPT !.todo = Tail(@),
              !.found = IF outcome = "synced" THEN @ \cup {path} ELSE @,
              !.imported = IF outcome = "synced" THEN @ + 1 ELSE @]

\* Visit with the walk ended at a file that fails (the callback returning
\* filepath.SkipAll).
VisitStopOnFailure(s, path, outcome) ==
    [s EXCEPT !.todo = IF outcome = "synced" THEN Tail(@) ELSE <<>>,
              !.found = @ \cup {path},
              !.imported = IF outcome = "synced" THEN @ + 1 ELSE @]

\* The callback on a regular file named *.md: foundFiles[path] = true first,
\* then the parse and the insert, importedCount++ after both; a failure is
\* logged and the callback returns nil, so the walk goes on.
Visit(s, path, outcome) ==
    [s EXCEPT !.todo = Tail(@),
              !.found = @ \cup {path},
              !.imported = IF outcome = "synced" THEN @ + 1 ELSE @]

\* cleanupDeletedNotes that deletes the rows of the files it was handed.
cleanupDeletedNotesFound(rows, foundFiles, failing) ==
    LET toDelete == {r \in rows : r.filename \in foundFiles}
    IN  [rows |-> {r \in rows : r \notin toDelete \/ r.filename \in failing},
         deletedCount |->
             Cardinality({r \in toDelete : r.filename \notin failing})]

\* cleanupDeletedNotes: every row whose filename is not in foundFiles is
\* deleted and counted, but for those (failing) whose DELETE returns an
\* error, which is logged.  The table afterwards and the count returned.
cleanupDeletedNotes(rows, foundFiles, failing) ==
    LET toDelete == {r \in rows : r.filename \notin foundFiles}
    IN  [rows |-> {r \in rows : r \notin toDelete \/ r.filename \in failing},
         deletedCount |->
             Cardinality({r \in toDelete : r.filename \notin failing})]

\* RunE after a failed walk, with the cleanup pass run all the same.
WalkFailedCleanup(rows, foundFiles, strict) ==
    IF strict THEN cleanupDeletedNotes(rows, foundFiles, {}).rows ELSE rows

\* RunE when filepath.Walk returns an error: it returns the wrapped error
\* at once, so the table is as the callbacks left it.
WalkFailed(rows, foundFiles, strict) == rows

\* The walk reaches its next entry: the callback, and for a directory the
\* reading of its names.
SyncFile ==
    /\ sync.pc = "walk"
    /\ sync.todo # <<>>
    /\ LET f == Head(sync.todo)
           path == Path(sync.root, f)
           rest == [sync EXCEPT !.todo = Tail(@)]
       IN  IF IsDir(f)
           THEN \* the callback skips a directory; the walk descends
                /\ sync' = [sync EXCEPT
                               !.todo = readDirNames(DirName(f)) \o Tail(@)]
                /\ last' = [op |-> "directory", path |-> path]
                /\ UNCHANGED <<notes, srsWritten>>
           ELSE IF ~fs[f].exists
           THEN \* os.Lstat fails: the callback returns err, the walk stops
                \* and RunE returns before the cleanup
                /\ sync' = NoSync
                /\ last' = [op |-> "importFailed", path |-> path,
                            strict |-> sync.strict,
                            synced |-> sync.imported, err |-> WalkError]
                /\ notes' = WalkFailed(notes, sync.found, sync.strict)
                /\ UNCHANGED srsWritten
           ELSE IF ~IsMarkdown(f)
           THEN /\ sync' = rest
                /\ last' = [op |-> "notMarkdown", path |-> path]
                /\ UNCHANGED <<notes, srsWritten>>
           ELSE IF ~fs[f].readable
           THEN \* note.ParseFile returns the error of os.ReadFile
                /\ sync' = Visit(sync, path, "parseFailed")
                /\ last' = [op |-> "parseFailed", path |-> path]
                /\ UNCHANGED <<notes, srsWritten>>
           ELSE \E stored \in BOOLEAN :
                  LET n == ParseFile(path, fs[f], now) IN
                  IF stored
                  THEN /\ notes' = InsertNote(notes, n)
                       /\ sync' = Visit(sync, path, "synced")
                       /\ last' =
                              [op |-> "InsertNote", path |-> path,
                               parsed |-> n, at |-> now,
                               existed |->
                                   \E r \in notes : r.filename = path,
                               pre |-> {r \in notes : r.filename = path}]
                       /\ UNCHANGED srsWritten
                  ELSE \* db.InsertNote returns an error: logged, skipped
                       /\ sync' = Visit(sync, path, "insertFailed")
                       /\ last' = [op |-> "insertFailed", path |-> path]
                       /\ UNCHANGED <<notes, srsWritten>>
    /\ UNCHANGED <<fs, now, sess>>

\* After the walk: the cleanup pass (strict) and the summary.
SyncFinish ==
    /\ sync.pc = "walk"
    /\ sync.todo = <<>>
    /\ \E failing \in
           SUBSET (IF sync.strict
                   THEN {r.filename : r \in notes} \ sync.found
                   ELSE {}) :
         LET cleanup == IF sync.strict
                        THEN cleanupDeletedNotes(notes, sync.found, failing)
                        ELSE [rows |-> notes, deletedCount |-> 0]
         IN  /\ notes' = cleanup.rows
             /\ srsWritten' = srsWritten \cap {r.id : r \in cleanup.rows}
             /\ last' = [op |-> "importDone", strict |-> sync.strict,
                         synced |-> sync.imported,
                         removed |-> {r.filename : r \in notes \ cleanup.rows},
                         deletedCount |-> cleanup.deletedCount,
                         deleteFailed |-> failing,
                         err |-> NoError]
    /\ sync' = NoSync
    /\ UNCHANGED <<fs, now, sess>>

---------------------------------------------------------------------------
(* The environment: the clock, and the user's editor on the note files.    *)

Tick ==
    /\ now.day < MaxNow
    /\ now' = Time(now.day + 1)
    /\ UNCHANGED <<fs, notes, sess, sync, srsWritten, last>>

NoteFiles == {f \in Files : IsMarkdown(f)}

WriteFile(f, c) ==
    /\ fs[f] # c
    /\ fs' = [fs EXCEPT ![f] = c]
    /\ UNCHANGED <<notes, now, sess, sync, srsWritten, last>>

RemoveFile(f) ==
    /\ fs[f].exists
    /\ fs' = [fs EXCEPT ![f] = NoFile]
    /\ UNCHANGED <<notes, now, sess, sync, srsWritten, last>>

---------------------------------------------------------------------------
(* The program: an empty store beside a directory tree, then imports,      *)
(* reviews, edits and clock ticks in any order.                            *)

FirstContents == CHOOSE c \in Contents : c.readable /\ c.title = "T1"

Init ==
    /\ fs = [f \in Files |-> FirstContents]
    /\ notes = {}
    /\ now = Time(0)
    /\ sess = Idle
    /\ sync = NoSync
    /\ srsWritten = {}
    /\ last = [op |-> "none"]
    /\ budget = NoBudget
    /\ CommandsIdle

Import ==
    /\ budget.ops < MaxOps
    /\ \E root \in Roots, strict \in BOOLEAN : SyncStart(root, strict)
    /\ budget' = [budget EXCEPT !.ops = @ + 1]
    /\ UNCHANGED commands

ImportStep ==
    /\ SyncFile \/ SyncFinish
    /\ UNCHANGED budget
    /\ UNCHANGED commands

Review ==
    /\ budget.ops < MaxOps
    /\ \E any \in BOOLEAN : ReviewStart(any)
    /\ budget' = [budget EXCEPT !.ops = @ + 1]
    /\ UNCHANGED commands

ReviewStep ==
    /\ ReviewAbort \/ \E rating \in Ratings : ReviewRate(rating)
    /\ UNCHANGED budget
    /\ UNCHANGED commands

Edit ==
    /\ budget.ops < MaxOps
    /\ \E f \in NoteFiles :
           \/ \E c \in Contents : WriteFile(f, c)
           \/ RemoveFile(f)
    /\ budget' = [budget EXCEPT !.ops = @ + 1]
    /\ UNCHANGED commands

Clock ==
    /\ budget.ops < MaxOps
    /\ Tick
    /\ budget' = [budget EXCEPT !.ops = @ + 1]
    /\ UNCHANGED commands

Next == Import \/ ImportStep \/ Review \/ ReviewStep \/ Edit \/ Clock

Spec == Init /\ [][Next]_vars

----------------------------------------------------------------------------
(* The program from the store a first `neuron import a/sub` leaves: the    *)
(* row of a/sub/n2.MD with id 1 beside the same tree; then imports,        *)
(* reviews, edits and clock ticks as in Spec.                               *)

ReuseNote == File("a/sub", "n2", "MD")

InitReuse ==
    /\ fs = [f \in Files |-> FirstContents]
    /\ notes = InsertNote({}, ParseFile(Path("a/sub", ReuseNote),
                                         FirstContents, Time(0)))
    /\ now = Time(0)
    /\ sess = Idle
    /\ sync = NoSync
    /\ srsWritten = {}
    /\ last = [op |-> "none"]
    /\ budget = NoBudget
    /\ CommandsIdle

SpecReuse == InitReuse /\ [][Next]_vars

---------------------------------------------------------------------------
(* The scheduler alone: one stored note, reviewed again and again with     *)
(* `review --any`.  SpecSRSLong starts from the note as a sync creates it; *)
(* SpecSRS draws the stored scheduling state from SRSIntervals and         *)
(* SRSEases.                                                               *)

SRSIntervals == {0, 1, 2, 3, 5, 6, 7, 10, 40}

SRSEases == {130, 135, 140, 145, 150, 200, 250, 265}

SRSNote(interval, ease) ==
    [ParseFile(Path("a", Children("a")[1]),
               CHOOSE c \in Contents : c.title = "T1", Time(0))
        EXCEPT !.id = 1, !.interval = interval, !.ease_factor = ease]

SRSInit(intervals, eases) ==
    /\ fs = [f \in Files |-> NoFile]
    /\ \E i \in intervals, e \in eases : notes = {SRSNote(i, e)}
    /\ now \in {Time(0), Time(1)}
    /\ sess = Idle
    /\ sync = NoSync
    /\ srsWritten = {}
    /\ last = [op |-> "none"]
    /\ budget = NoBudget
    /\ CommandsIdle

SRSStart ==
    /\ ReviewStart(TRUE)
    /\ UNCHANGED budget
    /\ UNCHANGED commands

SRSRate(limit) ==
    /\ budget.ratings < limit
    /\ sess.note.interval <= MaxInterval
    /\ sess.note.ease_factor <= MaxEase
    /\ \E rating \in Ratings : ReviewRate(rating)
    /\ budget' = [budget EXCEPT !.ratings = @ + 1]
    /\ UNCHANGED commands

InitSRS == SRSInit(SRSIntervals, SRSEases)

NextSRS == SRSStart \/ SRSRate(MaxSteps)

SpecSRS == InitSRS /\ [][NextSRS]_vars

InitSRSLong == SRSInit({DefaultInterval}, {DefaultEaseFactor})

NextSRSLong == SRSStart \/ SRSRate(MaxRatings)

SpecSRSLong == InitSRSLong /\ [][NextSRSLong]_vars

---------------------------------------------------------------------------
(* The sync engine alone: a directory tree drawn from SyncTrees beside an  *)
(* empty store, then imports one after another, with edits and clock ticks *)
(* between them (the tree does not change while a walk is under way).      *)
(* `budget` also keeps the log of the runs: for each, the root, the mode,  *)
(* the tree walked, the store before the run, the files that failed, and   *)
(* at its end the tracked set, the store before the cleanup and after it,  *)
(* and the summary.                                                        *)

MaxSyncOps == 3       \* imports, edits and ticks in one run of SpecSync

SyncTrees ==
    { tree \in [Files -> Contents \cup {NoFile}] :
        \A f \in Files \ NoteFiles : tree[f] = FirstContents }

NoRun ==
    [root |-> "", strict |-> FALSE, tree |-> [f \in Files |-> NoFile],
     before |-> {}, failed |-> {}]

InitSync ==
    /\ fs \in SyncTrees
    /\ notes = {}
    /\ now = Time(0)
    /\ sess = Idle
    /\ sync = NoSync
    /\ srsWritten = {}
    /\ last = [op |-> "none"]
    /\ budget = [ratings |-> 0, ops |-> 0, run |-> NoRun, log |-> <<>>]
    /\ CommandsIdle

SyncImport ==
    /\ budget.ops < MaxSyncOps
    /\ \E root \in Roots, strict \in BOOLEAN :
          /\ SyncStart(root, strict)
          /\ budget' = [budget EXCEPT
                            !.ops = @ + 1,
                            !.run = [root |-> root, strict |-> strict,
                                     tree |-> fs, before |-> notes,
                                     failed |-> {}]]
    /\ UNCHANGED commands

SyncImportStep ==
    /\ SyncFile \/ SyncFinish
    /\ budget' =
          IF last'.op \in {"parseFailed", "insertFailed"}
          THEN [budget EXCEPT !.run.failed = @ \cup {last'.path}]
          ELSE IF last'.op \in {"importDone", "importFailed"}
          THEN [budget EXCEPT
                   !.log = Append(@,
                       [root |-> budget.run.root,
                        strict |-> budget.run.strict,
                        tree |-> budget.run.tree,
                        before |-> budget.run.before,
                        failed |-> budget.run.failed,
                        found |-> sync.found,
                        walked |-> notes,
                        after |-> notes',
                        result |-> last'])]
          ELSE budget
    /\ UNCHANGED commands

SyncEdit ==
    /\ budget.ops < MaxSyncOps
    /\ sync.pc = "idle"
    /\ \E f \in NoteFiles :
           \/ \E c \in Contents : WriteFile(f, c)
           \/ RemoveFile(f)
    /\ budget' = [budget EXCEPT !.ops = @ + 1]
    /\ UNCHANGED commands

SyncClock ==
    /\ budget.ops < MaxSyncOps
    /\ Tick
    /\ budget' = [budget EXCEPT !.ops = @ + 1]
    /\ UNCHANGED commands

NextSync == SyncImport \/ SyncImportStep \/ SyncEdit \/ SyncClock

SpecSync == InitSync /\ [][NextSync]_vars

---------------------------------------------------------------------------
(* The store's queries alone: a store drawn from QueryStores at an instant *)
(* drawn from QueryNows, and the calls of GetDueNote, GetDueNotes and      *)
(* GetNoteByTitleOrFilename on it.                                         *)

MaxLimit == 3         \* the largest limit GetDueNotes is called with
MaxDue == 2           \* the latest day a drawn row is due

QueryFiles == NoteFiles \cup {File("b", "x_y", "md")}

QueryTitles == {"T1", "t2", "50%"}

QueryTerms == {"", "t1", "n1", "MD", "x_y", "zz", "_", "%"}

QueryNows == {Time(0), Time(1)}

\* The rowid of a drawn row.
QueryId(f) ==
    IF f.base = "n1" THEN 1 ELSE IF f.base = "n2" THEN 2 ELSE 3

QueryRows(f) ==
    { [id |-> QueryId(f), filename |-> f, title |-> title, tags |-> <<>>,
       content |-> "", created_at |-> 0, due_date |-> Time(d),
       interval |-> DefaultInterval, ease_factor |-> DefaultEaseFactor] :
      title \in QueryTitles, d \in 0..MaxDue }

\* The stores: at most one row for each file.
QueryStores ==
    LET slots == {{}} \cup {{r} : r \in UNION {QueryRows(f) : f \in QueryFiles}}
        picks == { pick \in [QueryFiles -> slots] :
                     \A f \in QueryFiles : pick[f] \subseteq QueryRows(f) }
    IN  { UNION {pick[f] : f \in QueryFiles} : pick \in picks }

InitQuery ==
    /\ fs = [f \in Files |-> NoFile]
    /\ notes \in QueryStores
    /\ now \in QueryNows
    /\ sess = Idle
    /\ sync = NoSync
    /\ srsWritten = {}
    /\ last = [op |-> "none"]
    /\ budget = NoBudget
    /\ CommandsIdle

\* A query that returns one row or sql.ErrNoRows, as scanNote hands it on.
scanNote(op, arg, found) ==
    IF found = {}
    THEN last' = [op |-> op, arg |-> arg, err |-> ErrNoRows, note |-> NoNote]
    ELSE \E n \in found :
            last' = [op |-> op, arg |-> arg, err |-> NoError, note |-> n]

CallGetDueNote ==
    /\ scanNote("GetDueNote", now, GetDueNote(notes, now))
    /\ UNCHANGED <<fs, notes, now, sess, sync, srsWritten, budget>>
    /\ UNCHANGED commands

CallGetDueNotes ==
    /\ \E limit \in 0..MaxLimit : \E result \in GetDueNotes(notes, now, limit) :
          last' = [op |-> "GetDueNotes", arg |-> limit, err |-> NoError,
                   result |-> result]
    /\ UNCHANGED <<fs, notes, now, sess, sync, srsWritten, budget>>
    /\ UNCHANGED commands

CallGetNoteByTitleOrFilename ==
    /\ \E term \in QueryTerms :
          scanNote("GetNoteByTitleOrFilename", term,
                   GetNoteByTitleOrFilename(notes, term))
    /\ UNCHANGED <<fs, notes, now, sess, sync, srsWritten, budget>>
    /\ UNCHANGED commands

NextQuery ==
    CallGetDueNote \/ CallGetDueNotes \/ CallGetNoteByTitleOrFilename

SpecQuery == InitQuery /\ [][NextQuery]_vars

----------------------------------------------------------------------------
(* `neuron mix`: mixCmd.RunE, alone on a store drawn from MixStores.  A    *)
(* step is the fetch, or the part of a card up to the next wait for the    *)
(* user; mix.out is what the command has printed of its session's frame,   *)
(* mix.calls the requests it has sent to the provider.                     *)

reviewLimit == 3

MaxMixRuns == 2       \* runs of `mix` one after another

\* A printed line: its text and the number formatted into it.
Line(text, n) == [text |-> text, n |-> n]

SessionStartMessage == "--- Starting Interleaved Review Session (%d notes) ---"

SessionCompleteMessage == "--- Interleaved session complete! ---"

QueryError == "query failed"

\* The branch RunE takes on the result of GetDueNotes: the length of the
\* slice is looked at only under a non-nil error.
MixBranch(result, err) ==
    IF err # NoError
    THEN IF err = ErrNoRows \/ Len(result) = 0 THEN "nothingDue" ELSE "failed"
    ELSE "session"

\* The loop over the cards from the top: past the last card the session's
\* closing line is printed and RunE returns nil.
MixNextCard(m) ==
    IF m.cards = <<>>
    THEN [m EXCEPT !.pc = "idle",
                   !.out = Append(@, Line(SessionCompleteMessage, 0))]
    ELSE [m EXCEPT !.pc = "question"]

\* GetDB, GetDueNotes and the branch on its result.  db.Query may fail, and
\* then the slice is nil.
MixStart ==
    /\ mix.pc = "idle"
    /\ budget.ops < MaxMixRuns
    /\ \E err \in {NoError, QueryError} :
       \E result \in (IF err = NoError
                      THEN GetDueNotes(notes, now, reviewLimit)
                      ELSE {<<>>}) :
          /\ mix' =
                IF MixBranch(result, err) = "session"
                THEN MixNextCard([pc |-> "question", cards |-> result,
                                  out |-> <<Line(SessionStartMessage,
                                                 Len(result))>>,
                                  calls |-> 0])
                ELSE IF MixBranch(result, err) = "nothingDue"
                THEN [NoMix EXCEPT !.out = <<Line(NothingDueMessage, 0)>>]
                ELSE NoMix
          /\ last' = [op |-> "mix", due |-> Due(notes, now),
                      queryErr |-> err, fetched |-> Len(result),
                      err |-> IF MixBranch(result, err) = "failed"
                              THEN err ELSE NoError]
    /\ budget' = [budget EXCEPT !.ops = @ + 1]
    /\ UNCHANGED <<fs, notes, now, sess, sync, srsWritten>>
    /\ UNCHANGED <<getdb, teach, workflow>>

\* study.GenerateQuestion for the card at hand: on an error the card is
\* skipped.
MixQuestion ==
    /\ mix.pc = "question"
    /\ \E ok \in BOOLEAN :
          mix' = IF ok
                 THEN [mix EXCEPT !.pc = "answer", !.calls = @ + 1]
                 ELSE MixNextCard([mix EXCEPT !.cards = Tail(@),
                                              !.calls = @ + 1])
    /\ last' = [op |-> "GenerateQuestion"]
    /\ UNCHANGED <<fs, notes, now, sess, sync, srsWritten, budget>>
    /\ UNCHANGED <<getdb, teach, workflow>>

\* study.GenerateAnswer after the user pressed Enter: on an error the card
\* is skipped.
MixAnswer ==
    /\ mix.pc = "answer"
    /\ \E ok \in BOOLEAN :
          mix' = IF ok
                 THEN [mix EXCEPT !.pc = "rating", !.calls = @ + 1]
                 ELSE MixNextCard([mix EXCEPT !.cards = Tail(@),
                                              !.calls = @ + 1])
    /\ last' = [op |-> "GenerateAnswer"]
    /\ UNCHANGED <<fs, notes, now, sess, sync, srsWritten, budget>>
    /\ UNCHANGED <<getdb, teach, workflow>>

\* The user's rating of the card: UpdateSRSData, UpdateNoteSRS, and on to
\* the next card.
MixRate ==
    /\ mix.pc = "rating"
    /\ \E rating \in Ratings :
          LET n == UpdateSRSData(Head(mix.cards), rating, now)
          IN  /\ notes' = UpdateNoteSRS(notes, n)
              /\ srsWritten' = srsWritten \cup {n.id}
              /\ last' = [op |-> "UpdateSRSData", rating |-> rating,
                          pre |-> Head(mix.cards), post |-> n, at |-> now,
                          hit |-> TRUE, err |-> UpdateNoteSRSErr(notes, n)]
    /\ mix' = MixNextCard([mix EXCEPT !.cards = Tail(@)])
    /\ UNCHANGED <<fs, now, sess, sync, budget>>
    /\ UNCHANGED <<getdb, teach, workflow>>

MixStores ==
    {s \in QueryStores : \A r \in s : r.title = "T1" /\ r.due_date.day # 1}

InitMix ==
    /\ fs = [f \in Files |-> NoFile]
    /\ notes \in MixStores
    /\ now \in QueryNows
    /\ sess = Idle
    /\ sync = NoSync
    /\ srsWritten = {}
    /\ last = [op |-> "none"]
    /\ budget = NoBudget
    /\ CommandsIdle

NextMix == MixStart \/ MixQuestion \/ MixAnswer \/ MixRate

SpecMix == InitMix /\ [][NextMix]_vars

----------------------------------------------------------------------------
(* `neuron teach <topic>`: teachCmd.RunE and ProcessSpecialCommand, alone  *)
(* on a store of one note.  A step is the start of the session, a chat     *)
(* request at the top of the loop, or the handling of one line the user    *)
(* typed at the prompt.  teach.requests counts the calls of                *)
(* study.SendChatMessage.                                                  *)

MaxInputs == 3        \* lines the user types in one run of SpecTeach

Message(role, content) == [role |-> role, content |-> content]

\* What the user types at the prompt.
TeachInputs ==
    {"quit", "exit", "note", "show note", "explain go", "help", "?",
     " HELP ", "so a goroutine is"}

\* strings.TrimSpace(strings.ToLower(input))
TrimLower(input) == IF input = " HELP " THEN "help" ELSE input

\* strings.HasPrefix(input, "explain ")
IsExplain(input) == input = "explain go"

\* strings.TrimPrefix(input, "explain ")
ExplainTopic(input) == "go"

ChatError == "chat request failed"

\* ProcessSpecialCommand: what it returns, the history it leaves and the
\* chat requests it sends; `reply` is whether the provider answers.
ProcessSpecialCommand(input, messages, reply) ==
    LET in == TrimLower(input)
    IN  IF in \in {"quit", "exit"}
        THEN [isSpecial |-> TRUE, shouldContinue |-> FALSE, err |-> NoError,
              messages |-> messages, requests |-> 0]
        ELSE IF in \in {"note", "show note"}
        THEN [isSpecial |-> TRUE, shouldContinue |-> TRUE, err |-> NoError,
              messages |-> messages, requests |-> 0]
        ELSE IF IsExplain(in)
        THEN LET asked ==
                     Append(messages,
                            Message("user", <<"Please explain",
                                              ExplainTopic(in)>>))
             IN  IF reply
                 THEN [isSpecial |-> TRUE, shouldContinue |-> TRUE,
                       err |-> NoError,
                       messages |->
                           Append(asked, Message("assistant",
                                                 <<"explanation">>)),
                       requests |-> 1]
                 ELSE [isSpecial |-> TRUE, shouldContinue |-> TRUE,
                       err |-> ChatError, messages |-> asked,
                       requests |-> 1]
        ELSE IF in \in {"help", "?"}
        THEN [isSpecial |-> TRUE, shouldContinue |-> TRUE, err |-> NoError,
              messages |-> messages, requests |-> 0]
        ELSE [isSpecial |-> FALSE, shouldContinue |-> TRUE, err |-> NoError,
              messages |-> messages, requests |-> 0]

\* GetDB, GetNoteByTitleOrFilename and the first two messages.
TeachStart ==
    /\ teach.pc = "idle"
    /\ budget.ops = 0
    /\ \E topic \in {"t1", "zz"} :
          LET found == GetNoteByTitleOrFilename(notes, topic)
          IN  IF found = {}
              THEN /\ teach' = NoTeach
                   /\ last' = [op |-> "teach", found |-> FALSE]
              ELSE \E n \in found :
                      /\ teach' =
                            [pc |-> "send",
                             messages |->
                                 << Message("system", <<"student">>),
                                    Message("user", <<"topic", n.title>>) >>,
                             requests |-> 0, prompts |-> 0]
                      /\ last' = [op |-> "teach", found |-> TRUE]
    /\ budget' = [budget EXCEPT !.ops = @ + 1]
    /\ UNCHANGED <<fs, notes, now, sess, sync, srsWritten>>
    /\ UNCHANGED <<getdb, workflow, mix>>

\* The top of the loop: SendChatMessage with the history, the reply
\* appended and printed, and the prompt `You: `.
TeachSend ==
    /\ teach.pc = "send"
    /\ \E reply \in BOOLEAN :
          IF reply
          THEN /\ teach' = [teach EXCEPT
                               !.pc = "prompt",
                               !.messages =
                                   Append(@, Message("assistant",
                                                     <<"question">>)),
                               !.requests = @ + 1,
                               !.prompts = @ + 1]
               /\ last' = [op |-> "SendChatMessage", err |-> NoError]
          ELSE /\ teach' = [teach EXCEPT !.pc = "idle", !.requests = @ + 1]
               /\ last' = [op |-> "SendChatMessage", err |-> ChatError]
    /\ UNCHANGED <<fs, notes, now, sess, sync, srsWritten, budget>>
    /\ UNCHANGED <<getdb, workflow, mix>>

\* The line the user typed: ProcessSpecialCommand, and the rest of the
\* loop's body.
TeachInput ==
    /\ teach.pc = "prompt"
    /\ budget.ops <= MaxInputs
    /\ \E input \in TeachInputs, reply \in BOOLEAN :
          LET ret == ProcessSpecialCommand(input, teach.messages, reply)
          IN  /\ teach' =
                    [teach EXCEPT
                        !.pc = IF ret.err # NoError \/ ~ret.shouldContinue
                               THEN "idle" ELSE "send",
                        !.messages =
                            IF ret.err = NoError /\ ~ret.isSpecial
                            THEN Append(ret.messages,
                                        Message("user", <<input>>))
                            ELSE ret.messages,
                        !.requests = @ + ret.requests]
              /\ last' = [op |-> "ProcessSpecialCommand", input |-> input,
                          isSpecial |-> ret.isSpecial,
                          shouldContinue |-> ret.shouldContinue,
                          err |-> ret.err]
    /\ budget' = [budget EXCEPT !.ops = @ + 1]
    /\ UNCHANGED <<fs, notes, now, sess, sync, srsWritten>>
    /\ UNCHANGED <<getdb, workflow, mix>>

InitTeach == InitReuse

NextTeach == TeachStart \/ TeachSend \/ TeachInput

SpecTeach == InitTeach /\ [][NextTeach]_vars

----------------------------------------------------------------------------
(* `neuron workflow <topic>`: the menus of the foundational and the        *)
(* verification phase, runSelfTestMode and runReflectionMode.  A step is   *)
(* what the command does with one line the user typed, up to its next      *)
(* read; workflow.menus counts the times a phase menu was shown.           *)

MaxLines == 5         \* lines the user types in one run of SpecWorkflow

Phases == {"foundational", "verification"}

MenuChoices == {"1", "2", "3", "4", "5", "6", "7", "8", "menu"}

ProviderError == "provider request failed"

\* The case of the phase menu's switch that a choice selects.
MenuOption(phase, choice) ==
    IF phase = "foundational"
    THEN CASE choice = "1" -> "review"
           [] choice \in {"2", "3", "4"} -> "selftest"
           [] choice = "5" -> "show"
           [] choice = "6" -> "help"
           [] choice = "7" -> "exit"
           [] OTHER -> "invalid"
    ELSE CASE choice \in {"1", "2", "3"} -> "selftest"
           [] choice = "4" -> "reflection"
           [] choice = "5" -> "review"
           [] choice = "6" -> "show"
           [] choice = "7" -> "help"
           [] choice = "8" -> "exit"
           [] OTHER -> "invalid"

\* The bottom of the menu's loop: the menu is printed again.
ShowMenu(w) == [w EXCEPT !.pc = "menu", !.menus = @ + 1]

\* The phase function returns, and RunE with it.
PhaseReturns(w) == [w EXCEPT !.pc = "idle"]

\* What the menu does when the mode it started returns: the case is
\* `return runSelfTestMode(...)` or `return runReflectionMode(...)`.
ModeReturns(w) == PhaseReturns(w)

\* A request to the provider within a mode: on an error the mode returns
\* it, on a reply the mode waits at `pc` for the next line.
ModeRequest(w, ok, pc) ==
    IF ok THEN [w EXCEPT !.pc = pc] ELSE ModeReturns(w)

ModeLast(ok) ==
    [op |-> "mode", err |-> IF ok THEN NoError ELSE ProviderError]

ModeEnded(how) == [op |-> "modeEnded", how |-> how, err |-> NoError]

\* RunE up to the first menu of the phase.
WorkflowStart ==
    /\ workflow.pc = "idle"
    /\ budget.ops = 0
    /\ \E phase \in Phases :
          workflow' = [pc |-> "menu", phase |-> phase, menus |-> 1]
    /\ last' = [op |-> "workflow", err |-> NoError]
    /\ budget' = [budget EXCEPT !.ops = @ + 1]
    /\ UNCHANGED <<fs, notes, now, sess, sync, srsWritten>>
    /\ UNCHANGED <<getdb, teach, mix>>

\* One choice at the phase menu.
PhaseMenu ==
    /\ workflow.pc = "menu"
    /\ budget.ops <= MaxLines
    /\ \E choice \in MenuChoices, ok \in BOOLEAN :
          LET option == MenuOption(workflow.phase, choice)
          IN  CASE option = "review" ->
                     /\ workflow' = IF ok THEN ShowMenu(workflow)
                                    ELSE PhaseReturns(workflow)
                     /\ last' = [op |-> "review",
                                 err |-> IF ok THEN NoError
                                         ELSE ProviderError]
                [] option = "selftest" ->
                     /\ workflow' = ModeRequest(workflow, ok, "answer")
                     /\ last' = ModeLast(ok)
                [] option = "reflection" ->
                     /\ workflow' = [workflow EXCEPT !.pc = "explain"]
                     /\ last' = ModeLast(TRUE)
                [] option = "exit" ->
                     /\ workflow' = PhaseReturns(workflow)
                     /\ last' = [op |-> "exitPhase", err |-> NoError]
                [] OTHER ->
                     /\ workflow' = ShowMenu(workflow)
                     /\ last' = [op |-> option, err |-> NoError]
    /\ budget' = [budget EXCEPT !.ops = @ + 1]
    /\ UNCHANGED <<fs, notes, now, sess, sync, srsWritten>>
    /\ UNCHANGED <<getdb, teach, mix>>

\* runSelfTestMode: the line typed under a question.
SelfTestAnswer ==
    /\ workflow.pc = "answer"
    /\ budget.ops <= MaxLines
    /\ \E input \in {"help", "note", "skip", "", "quit", "exit", "an answer"},
          ok \in BOOLEAN :
          IF input \in {"quit", "exit"}
          THEN /\ workflow' = ModeReturns(workflow)
               /\ last' = ModeEnded(input)
          ELSE IF input = "an answer"
          THEN /\ workflow' = ModeRequest(workflow, ok, "another")
               /\ last' = ModeLast(ok)
          ELSE /\ workflow' = ModeRequest(workflow, ok, "answer")
               /\ last' = ModeLast(ok)
    /\ budget' = [budget EXCEPT !.ops = @ + 1]
    /\ UNCHANGED <<fs, notes, now, sess, sync, srsWritten>>
    /\ UNCHANGED <<getdb, teach, mix>>

\* runSelfTestMode: the answer to `Continue with another question? (y/n)`.
SelfTestAnother ==
    /\ workflow.pc = "another"
    /\ budget.ops <= MaxLines
    /\ \E input \in {"n", "no", "y"}, ok \in BOOLEAN :
          IF input \in {"n", "no"}
          THEN /\ workflow' = ModeReturns(workflow)
               /\ last' = ModeEnded(input)
          ELSE /\ workflow' = ModeRequest(workflow, ok, "answer")
               /\ last' = ModeLast(ok)
    /\ budget' = [budget EXCEPT !.ops = @ + 1]
    /\ UNCHANGED <<fs, notes, now, sess, sync, srsWritten>>
    /\ UNCHANGED <<getdb, teach, mix>>

\* runReflectionMode: the line typed as the explanation, and with an
\* explanation the first challenges and the answer to `respond?`.
ReflectionExplain ==
    /\ workflow.pc = "explain"
    /\ budget.ops <= MaxLines
    /\ \E input \in {"help", "note", "", "quit", "exit", "an explanation"},
          ok \in BOOLEAN :
          IF input \in {"quit", "exit"}
          THEN /\ workflow' = ModeReturns(workflow)
               /\ last' = ModeEnded(input)
          ELSE IF input = "an explanation"
          THEN /\ workflow' = ModeRequest(workflow, ok, "round")
               /\ last' = ModeLast(ok)
          ELSE /\ workflow' = workflow
               /\ last' = ModeLast(TRUE)
    /\ budget' = [budget EXCEPT !.ops = @ + 1]
    /\ UNCHANGED <<fs, notes, now, sess, sync, srsWritten>>
    /\ UNCHANGED <<getdb, teach, mix>>

\* runReflectionMode: the answer to `Continue with another reflection
\* round? (y/n)`, and with a yes the next round up to the same question.
ReflectionRound ==
    /\ workflow.pc = "round"
    /\ budget.ops <= MaxLines
    /\ \E input \in {"n", "no", "y"}, ok \in BOOLEAN :
          IF input \in {"n", "no"}
          THEN /\ workflow' = ModeReturns(workflow)
               /\ last' = ModeEnded(input)
          ELSE /\ workflow' = ModeRequest(workflow, ok, "round")
               /\ last' = ModeLast(ok)
    /\ budget' = [budget EXCEPT !.ops = @ + 1]
    /\ UNCHANGED <<fs, notes, now, sess, sync, srsWritten>>
    /\ UNCHANGED <<getdb, teach, mix>>

InitWorkflow == InitReuse

NextWorkflow ==
    \/ WorkflowStart
    \/ PhaseMenu
    \/ SelfTestAnswer
    \/ SelfTestAnother
    \/ ReflectionExplain
    \/ ReflectionRound

SpecWorkflow == InitWorkflow /\ [][NextWorkflow]_vars

----------------------------------------------------------------------------
(* db.GetDB: the package's singleton behind a sync.Once, called by         *)
(* MaxCallers goroutines, at once or one after another.  Both versions of  *)
(* GetDB are modelled: the one that hands the error of the initialization  *)
(* to its caller ("returnsErr"), and the one that ends the process with    *)
(* log.Fatalf ("fatal").  A step is a goroutine's call, its once.Do, one   *)
(* statement of the initialization, or its return.                         *)

MaxCallers == 3       \* goroutines that call GetDB

Callers == 1..MaxCallers

Versions == {"returnsErr", "fatal"}

InitSteps == <<"sql.Open", "Ping", "createTables">>

NoCaller == [pc |-> "out", err |-> NoError, ran |-> FALSE, result |-> <<>>]

\* once.Do lets a goroutine that does not run the function go on as soon as
\* another one has started it.
OncePassesStarted(o) == o # "new"

\* once.Do lets a goroutine that does not run the function go on only when
\* the function has returned.
OncePasses(o) == o = "done"

\* The package's variables at the start of a process.
NewGetDB(version) ==
    [version |-> version, once |-> "new", dbInstance |-> "nil",
     done |-> {}, failed |-> "", inits |-> 0, exited |-> FALSE,
     callers |-> [c \in Callers |-> NoCaller]]

\* A goroutine calls GetDB.
GetDBCall(c) ==
    /\ ~getdb.exited
    /\ getdb.callers[c].pc = "out"
    /\ getdb' = [getdb EXCEPT !.callers[c].pc = "once.Do"]

\* once.Do: the first goroutine starts the function; another one passes
\* when the function has returned, and waits until then.
GetDBOnce(c) ==
    /\ ~getdb.exited
    /\ getdb.callers[c].pc = "once.Do"
    /\ IF getdb.once = "new"
       THEN getdb' = [getdb EXCEPT !.once = "running",
                                   !.inits = @ + 1,
                                   !.callers[c].pc = "sql.Open",
                                   !.callers[c].ran = TRUE]
       ELSE /\ OncePasses(getdb.once)
            /\ getdb' = [getdb EXCEPT !.callers[c].pc = "return"]

\* What follows a failed statement of the initialization: the function
\* returns with err set, or log.Fatalf ends the process.
InitFails(g, c, step) ==
    IF g.version = "fatal"
    THEN [g EXCEPT !.failed = step, !.exited = TRUE]
    ELSE [g EXCEPT !.failed = step, !.once = "done",
                   !.callers[c].err = step,
                   !.callers[c].pc = "return"]

\* One statement of the function handed to once.Do.  sql.Open assigns
\* dbInstance, which is nil if it fails.
GetDBInit(c) ==
    /\ ~getdb.exited
    /\ \E i \in 1..Len(InitSteps), ok \in BOOLEAN :
          LET step == InitSteps[i]
              opened == IF step = "sql.Open"
                        THEN [getdb EXCEPT
                                 !.dbInstance = IF ok THEN "db" ELSE "nil"]
                        ELSE getdb
          IN  /\ getdb.callers[c].pc = step
              /\ getdb' =
                    IF ~ok
                    THEN InitFails(opened, c, step)
                    ELSE IF i < Len(InitSteps)
                    THEN [opened EXCEPT !.done = @ \cup {step},
                                        !.callers[c].pc = InitSteps[i + 1]]
                    ELSE [opened EXCEPT !.done = @ \cup {step},
                                        !.once = "done",
                                        !.callers[c].pc = "return"]

\* return dbInstance, err (the later version: return dbInstance, nil).  The
\* result also records how far the initialization was at that instant.
GetDBReturn(c) ==
    /\ ~getdb.exited
    /\ getdb.callers[c].pc = "return"
    /\ getdb' =
          [getdb EXCEPT
              !.callers[c].pc = "back",
              !.callers[c].result =
                  << [handle |-> getdb.dbInstance,
                      err |-> IF getdb.version = "fatal" THEN NoError
                              ELSE getdb.callers[c].err,
                      once |-> getdb.once,
                      done |-> getdb.done,
                      failed |-> getdb.failed] >>]

GetDBStep(c) ==
    /\ GetDBCall(c) \/ GetDBOnce(c) \/ GetDBInit(c) \/ GetDBReturn(c)
    /\ last' = [op |-> "GetDB", caller |-> c]
    /\ UNCHANGED <<fs, notes, now, sess, sync, srsWritten, budget>>
    /\ UNCHANGED <<teach, workflow, mix>>

Call == \E c \in Callers : GetDBStep(c) /\ getdb.callers[c].pc = "out"

Once == \E c \in Callers : GetDBStep(c) /\ getdb.callers[c].pc = "once.Do"

Initialize ==
    \E c \in Callers :
        /\ GetDBStep(c)
        /\ getdb.callers[c].pc \in {InitSteps[i] : i \in 1..Len(InitSteps)}

Return == \E c \in Callers : GetDBStep(c) /\ getdb.callers[c].pc = "return"

InitGetDB ==
    /\ fs = [f \in Files |-> FirstContents]
    /\ notes = {}
    /\ now = Time(0)
    /\ sess = Idle
    /\ sync = NoSync
    /\ srsWritten = {}
    /\ last = [op |-> "none"]
    /\ budget = NoBudget
    /\ \E version \in Versions : getdb = NewGetDB(version)
    /\ teach = NoTeach
    /\ workflow = NoWorkflow
    /\ mix = NoMix

NextGetDB == Call \/ Once \/ Initialize \/ Return

SpecGetDB == InitGetDB /\ [][NextGetDB]_vars

---------------------------------------------------------------------------
(* The scheduler's properties.  `last` holds the note as UpdateSRSData got *)
(* it (pre), as it left it (post), the rating and the instant (at).        *)

Rated(rating) == last.op = "UpdateSRSData" /\ last.rating = rating

Days(d) == [day |-> d, sub |-> 0]

\* The growth rule as the specification states it, over an interval in
\* days and an ease factor in hundredths.
StatedGrowth(interval, ease) ==
    IF interval < 1 THEN 1
    ELSE IF interval < 6 THEN CeilDiv(interval * 16, 10)
         ELSE CeilDiv(interval * ease, 100)

\* C2: after UpdateSRSData with any rating, from any scheduling state that
\* ratings reach from (interval 1, ease 2.5), dueAt is now plus exactly
\* (the new interval) x 24 hours.
C2_DueIsNowPlusInterval ==
    last.op = "UpdateSRSData" =>
        last.post.due_date = TimeAdd(last.at, Days(last.post.interval))

\* C3: from an ease factor of 1.3 or more, the ease factor is 1.3 or more
\* after every rating of every sequence, in the note and in its row.
C3_EaseFloor ==
    /\ \A r \in notes : r.ease_factor >= 130
    /\ last.op = "UpdateSRSData" =>
           (last.pre.ease_factor >= 130 => last.post.ease_factor >= 130)

C3_Witness ==
    /\ Rated(RatingAgain)
    /\ last.pre.ease_factor = 140
    /\ last.post.ease_factor = 130
    /\ \E r \in notes : r.ease_factor = 130

\* C4: Again sets interval to exactly 1 and easeFactor to
\* max(1.3, easeFactor - 0.2), from every prior state.
C4_Again ==
    Rated(RatingAgain) =>
        /\ last.post.interval = 1
        /\ last.post.ease_factor =
               (IF last.pre.ease_factor - 20 < 130 THEN 130
                ELSE last.pre.ease_factor - 20)

C4_Witness ==
    /\ Rated(RatingAgain)
    /\ last.pre.interval = 10 /\ last.pre.ease_factor = 200
    /\ last.post.interval = 1 /\ last.post.ease_factor = 180

\* C5: Good sets interval to 1 if it was below 1, to ceil(interval x 1.6)
\* if it was in [1, 6), to ceil(interval x easeFactor) otherwise, and
\* leaves easeFactor as it was.
C5_Good ==
    Rated(RatingGood) =>
        /\ last.post.interval =
               StatedGrowth(last.pre.interval, last.pre.ease_factor)
        /\ last.post.ease_factor = last.pre.ease_factor

C5_Witness ==
    /\ Rated(RatingGood)
    /\ last.pre.interval = 1 /\ last.pre.ease_factor = 250
    /\ last.post.interval = 2 /\ last.post.ease_factor = 250
    /\ last.post.due_date = TimeAdd(last.at, Days(2))

\* C6: Easy gives the interval Good would give from the same prior state
\* (computed with the ease factor held before the update) and adds exactly
\* 0.15 to easeFactor.
C6_Easy ==
    Rated(RatingEasy) =>
        /\ last.post.interval =
               UpdateSRSData(last.pre, RatingGood, last.at).interval
        /\ last.post.interval =
               StatedGrowth(last.pre.interval, last.pre.ease_factor)
        /\ last.post.ease_factor = last.pre.ease_factor + 15

C6_Witness ==
    /\ Rated(RatingEasy)
    /\ last.pre.interval = 6 /\ last.pre.ease_factor = 250
    /\ last.post.interval = 15 /\ last.post.ease_factor = 265

\* C7: after any UpdateSRSData, whatever the rating and the prior state
\* (a prior interval below 1 included), the interval is at least 1.
C7_IntervalAtLeastOne ==
    last.op = "UpdateSRSData" => last.post.interval >= 1

C7_Witness ==
    /\ Rated(RatingGood)
    /\ last.pre.interval < 1
    /\ last.post.interval = 1

\* C8: from interval >= 6 and easeFactor >= 1.3, Good and Easy never make
\* the interval smaller; a rating that makes the interval smaller is Again,
\* and the interval is then exactly 1.
C8_Monotone ==
    last.op = "UpdateSRSData" =>
        /\ ( /\ last.pre.interval >= 6
             /\ last.pre.ease_factor >= 130
             /\ last.rating \in {RatingGood, RatingEasy} )
           => last.post.interval >= last.pre.interval
        /\ last.post.interval < last.pre.interval
           => (last.rating = RatingAgain /\ last.post.interval = 1)

C8_Witness ==
    /\ Rated(RatingGood)
    /\ last.pre.interval = 6 /\ last.pre.ease_factor = 130
    /\ last.post.interval = 8

\* C26: with the clock held fixed and no sync running, every persisted
\* review leaves the reviewed note not due: the dueAt it computes and the
\* dueAt of the stored row are later than now, for every rating and from
\* every scheduling state earlier reviews reach (so that reviews with
\* arbitrary ratings come to the state where GetDueNote finds nothing).
C26_ReviewedNoteIsNotDue ==
    last.op = "UpdateSRSData" =>
        /\ ~TimeLE(last.post.due_date, last.at)
        /\ \A r \in notes : r.id = last.post.id => ~TimeLE(r.due_date, now)
        /\ last.hit => GetDueNote(notes, now) = {}

---------------------------------------------------------------------------
(* The store's properties under imports, reviews, edits and the clock.     *)

Schedule(r) == <<r.due_date, r.interval, r.ease_factor>>

Parsed(r) == <<r.title, r.tags, r.content, r.created_at>>

C9_NewNoteIsDue ==
    /\ \A r \in notes :
          r.id \notin srsWritten =>
            /\ r.interval = 1
            /\ r.ease_factor = 250
            /\ TimeLE(r.due_date, now)
            /\ GetDueNote(notes, now) # {}
    /\ (last.op = "InsertNote" /\ ~last.existed) =>
          \E r \in notes :
            /\ r.filename = last.path
            /\ r.due_date = last.at
            /\ r.interval = 1
            /\ r.ease_factor = 250

\* A note created on day 0 and not reviewed is still due a day later, after
\* another note's review was persisted.
C9_Witness ==
    /\ now = Time(1)
    /\ srsWritten # {}
    /\ \E r \in notes :
          /\ r.id \notin srsWritten
          /\ r.due_date = Time(0)
          /\ r \in GetDueNote(notes, now)

\* C10: in every reachable state no two rows have the same filename (nor
\* the same id); importing a stored file adds no row.
C10_UniqueSourcePath ==
    /\ \A r, q \in notes : (r.filename = q.filename \/ r.id = q.id) => r = q
    /\ (last.op = "InsertNote" /\ last.existed) =>
          Cardinality({r \in notes : r.filename = last.path}) = 1

\* A stored file imported again beside another row.
C10_Witness ==
    /\ last.op = "InsertNote"
    /\ last.existed
    /\ Cardinality(notes) = 2
    /\ Cardinality({r \in notes : r.filename = last.path}) = 1

\* The step is the rating of a review session: UpdateSRSData, UpdateNoteSRS.
RateStep == sess.pc = "asked" /\ sess'.pc = "idle" /\ last'.op = "UpdateSRSData"

Frame(r) == <<r.id, r.filename, r.title, r.tags, r.content, r.created_at>>

\* C11: UpdateNoteSRS leaves the stored rows the same in number; the row of
\* the reviewed note (the row with the id the session holds) keeps its
\* filename, title, tags, content and created_at as they were in the store
\* just before the update (also when a sync rewrote them after the session
\* fetched the note: the update does not write back what the session holds)
\* and gets the session's due_date, interval and ease_factor; every other
\* row is unchanged in every field.
C11_UpdateWritesScheduleOnly ==
    [][ RateStep =>
          /\ {Frame(r) : r \in notes'} = {Frame(r) : r \in notes}
          /\ Cardinality(notes') = Cardinality(notes)
          /\ \A r \in notes :
                IF r.id = last'.post.id
                THEN \E q \in notes' :
                        /\ Frame(q) = Frame(r)
                        /\ Schedule(q) = Schedule(last'.post)
                ELSE r \in notes' ]_vars

\* A rating persisted after a sync rewrote the title and the content of the
\* note the session holds: the row has the sync's title and the rating's
\* schedule.
C11_Witness ==
    /\ last.op = "UpdateSRSData"
    /\ last.hit
    /\ \E r \in notes :
          /\ r.id = last.pre.id
          /\ r.filename = last.pre.filename
          /\ r.title # last.pre.title
          /\ r.content # last.pre.content
          /\ Schedule(r) = Schedule(last.post)
          /\ Schedule(r) # Schedule(last.pre)
    /\ Cardinality(notes) = 2

\* C12: an UpdateNoteSRS for a note whose row a cleanup pass deleted after
\* the session fetched it fails with NotFound and leaves the store as it
\* was.
C12_MissingNoteNotFound ==
    [][ (RateStep /\ ~last'.hit) =>
            (last'.err = ErrNoRows /\ notes' = notes) ]_vars

---------------------------------------------------------------------------
(* The queries' properties.  `last` holds the call, its argument, the      *)
(* error and the row or rows returned; the store and the clock of          *)
(* SpecQuery do not change.                                                *)

IsDue(r) == TimeLE(r.due_date, now)

\* C13: GetDueNote returns a stored note with dueAt <= now whose dueAt is
\* minimal among the stored notes with dueAt <= now, never one with
\* dueAt > now, and fails with sql.ErrNoRows exactly when no stored note has
\* dueAt <= now.
C13_GetDueNote ==
    last.op = "GetDueNote" =>
        /\ last.err = ErrNoRows <=> ~ \E r \in notes : IsDue(r)
        /\ last.err = NoError =>
              /\ last.note \in notes
              /\ IsDue(last.note)
              /\ \A r \in notes :
                    IsDue(r) => TimeLE(last.note.due_date, r.due_date)

\* The earlier of two due notes is returned while a third is not yet due.
C13_Witness ==
    /\ last.op = "GetDueNote"
    /\ last.err = NoError
    /\ last.note.due_date = Time(0)
    /\ \E r \in notes : r.due_date = Time(1) /\ IsDue(r)
    /\ \E r \in notes : ~IsDue(r)

Range(s) == {s[i] : i \in 1..Len(s)}

\* C14: GetDueNotes(limit) returns, with a nil error, exactly
\* min(limit, number of due notes) pairwise distinct stored notes, each with
\* dueAt <= now; every set of due notes of that size is a possible result;
\* when no note is due the result is the empty list.
C14_GetDueNotes ==
    last.op = "GetDueNotes" =>
        LET due == {r \in notes : IsDue(r)}
            size == IF last.arg <= Cardinality(due) THEN last.arg
                    ELSE Cardinality(due)
        IN  /\ last.err = NoError
            /\ Len(last.result) = size
            /\ Cardinality(Range(last.result)) = size
            /\ Range(last.result) \subseteq due
            /\ \A chosen \in SUBSET due :
                  Cardinality(chosen) = size =>
                      \E s \in GetDueNotes(notes, now, last.arg) :
                          Range(s) = chosen
            /\ due = {} => last.result = <<>>

\* Of three due notes with different due dates, the two latest are returned.
C14_Witness ==
    /\ last.op = "GetDueNotes"
    /\ last.arg = 2
    /\ Len(last.result) = 2
    /\ Cardinality({r \in notes : IsDue(r)}) = 3
    /\ \E r \in notes :
          /\ r \notin Range(last.result)
          /\ \A q \in Range(last.result) :
                r.due_date # q.due_date /\ TimeLE(r.due_date, q.due_date)

FoldAll(s) == [i \in 1..Len(s) |-> Fold(s[i])]

\* term is a substring of text, letters compared without regard to case.
Contains(term, text) ==
    \E i \in 0..(Len(text) - Len(term)) :
        SubSeq(FoldAll(text), i + 1, i + Len(term)) = FoldAll(term)

Matches(term, r) ==
    \/ Contains(Chars(term), Chars(r.title))
    \/ Contains(Chars(term), PathText(r.filename))

\* C15: for every search term, those containing % or _ included,
\* GetNoteByTitleOrFilename returns a note only if the note's title or
\* sourcePath contains the term as a substring, and fails with
\* sql.ErrNoRows when no stored note's title or sourcePath contains it.
C15_FindIsSubstringSearch ==
    last.op = "GetNoteByTitleOrFilename" =>
        /\ last.err = NoError => Matches(last.arg, last.note)
        /\ (~ \E r \in notes : Matches(last.arg, r)) => last.err = ErrNoRows

---------------------------------------------------------------------------
(* The sync engine's properties, over the log of the runs of SpecSync.     *)

Runs == {budget.log[i] : i \in 1..Len(budget.log)}

Completed(run) == run.result.op = "importDone" /\ run.result.err = NoError

\* The files at any depth under a root.
Below(root) == IF root = "a" THEN Files ELSE {f \in Files : f.dir = root}

\* The regular files under the root of a run whose name ends in .md, in
\* either case.
Matching(run) ==
    {f \in Below(run.root) : run.tree[f].exists /\ f.ext \in {"md", "MD"}}

Stored(rows) == {r.filename : r \in rows}

\* The row of file f holds what the file of the tree walked holds.
HoldsFile(r, f, tree) ==
    /\ r.filename = f
    /\ Parsed(r) = <<tree[f].title, tree[f].tags, tree[f].content,
                      tree[f].created_at>>

\* C16: a sync creates store entries for regular files under the root whose
\* name ends in .md (in either case) and for nothing else; when no parse
\* and no insert fails, the synced count is the number of those files and
\* each of them has its entry afterwards; from an empty store nothing is
\* removed.
C16_SyncImportsMarkdownFiles ==
    \A run \in Runs :
        Completed(run) =>
            /\ Stored(run.walked) \ Stored(run.before) \subseteq Matching(run)
            /\ run.failed = {} =>
                  /\ run.result.synced = Cardinality(Matching(run))
                  /\ \A f \in Matching(run) :
                        \E r \in run.after : HoldsFile(r, f, run.tree)
            /\ run.before = {} => run.result.deletedCount = 0

\* Directory a with n1.md, sub/n2.MD and t.txt, synced into an empty store:
\* 2 synced, 0 removed, two entries.
C16_Witness ==
    \E run \in Runs :
        /\ run.root = "a" /\ run.strict /\ run.before = {}
        /\ \A f \in Files : run.tree[f].exists
        /\ run.failed = {}
        /\ run.result.synced = 2
        /\ run.result.deletedCount = 0
        /\ Stored(run.after) =
               {File("a", "n1", "md"), File("a/sub", "n2", "MD")}

\* C17: the cleanup pass of a strict sync deletes store entries whose
\* filename is not in the set tracked in this pass and no other, all of
\* them when no DELETE fails, and the removed count is the number of
\* entries deleted.
C17_CleanupDeletesUntracked ==
    \A run \in Runs :
        (Completed(run) /\ run.strict) =>
            LET deleted == run.walked \ run.after
            IN  /\ run.after \subseteq run.walked
                /\ \A r \in deleted : r.filename \notin run.found
                /\ run.result.deletedCount = Cardinality(deleted)
                /\ run.result.deleteFailed = {} =>
                      deleted = {r \in run.walked : r.filename \notin run.found}

\* Two files synced, one of them removed from the directory, a strict sync:
\* exactly its note is deleted and 1 removal is reported.
C17_Witness ==
    /\ Len(budget.log) = 2
    /\ LET first == budget.log[1]
           run == budget.log[2]
       IN  /\ run.strict /\ run.root = first.root
           /\ Cardinality(run.before) = 2
           /\ \E f \in NoteFiles :
                 /\ first.tree[f].exists /\ ~run.tree[f].exists
                 /\ Stored(run.walked \ run.after) = {f}
           /\ run.result.deletedCount = 1
           /\ Cardinality(run.after) = 1

\* C27: a strict sync of directory R deletes only store entries whose
\* filename lies under R: an entry imported from another root is left in
\* the store, with its schedule.
C27_CleanupStaysUnderRoot ==
    \A run \in Runs :
        (Completed(run) /\ run.strict) =>
            \A r \in run.walked :
                r.filename \notin Below(run.root) => r \in run.after

\* C18 as claimed: the tracked set of a pass is exactly the matching files
\* parsed and upserted without error in the pass; a file whose parse or
\* upsert failed is not in it.
C18_TrackedIsProcessed ==
    \A run \in Runs :
        Completed(run) =>
            /\ run.found = Matching(run) \ run.failed
            /\ run.found \cap run.failed = {}

\* C18 as amended: the tracked set of a pass is exactly the matching files
\* the walk visited in the pass, those whose parse or upsert failed
\* included, so the cleanup deletes the entry of none of them.
C18_TrackedIsVisited ==
    \A run \in Runs :
        Completed(run) =>
            /\ run.found = Matching(run)
            /\ run.failed \subseteq run.found
            /\ \A r \in run.walked :
                  r.filename \in run.failed => r \in run.after

\* A stored file that cannot be read in a strict pass: tracked, and its
\* entry is kept.
C18_Witness ==
    \E run \in Runs :
        /\ run.strict
        /\ \E f \in run.failed :
              /\ ~run.tree[f].readable
              /\ f \in run.found
              /\ \E r \in run.before : r.filename = f /\ r \in run.after

\* C19: a parse or an insert failure for one file does not end the sync:
\* the walk goes on, every other matching file of the tree is parsed and
\* upserted, the synced count leaves the failed files out, and the command
\* returns no error.
C19_FailureIsSkipped ==
    /\ last.op \in {"parseFailed", "insertFailed"} => sync.pc = "walk"
    /\ \A run \in Runs :
          run.failed # {} =>
              /\ Completed(run)
              /\ \A f \in Matching(run) \ run.failed :
                    \E r \in run.walked : HoldsFile(r, f, run.tree)
              /\ run.result.synced =
                     Cardinality(Matching(run) \ run.failed)

\* The first file of the walk fails; the file after it, in the directory
\* below, is synced.
C19_Witness ==
    \E run \in Runs :
        /\ run.root = "a"
        /\ run.failed = {File("a", "n1", "md")}
        /\ run.result.synced = 1
        /\ Stored(run.after) = {File("a/sub", "n2", "MD")}
        /\ Completed(run)

\* C20: two syncs in a row of an unchanged directory from an empty store,
\* with no parse or insert failure: the store after the second is the store
\* after the first, record for record and field for field, and both report
\* the number of .md files as synced and no removal.
C20_SyncTwiceIsIdempotent ==
    \A i \in 1..(Len(budget.log) - 1) :
        LET first == budget.log[i]
            second == budget.log[i + 1]
        IN  ( /\ first.before = {}
              /\ second.root = first.root
              /\ second.tree = first.tree
              /\ second.before = first.after
              /\ first.failed = {} /\ second.failed = {}
              /\ Completed(first) /\ Completed(second) )
            =>
            /\ second.after = first.after
            /\ first.result.synced = Cardinality(Matching(first))
            /\ second.result.synced = Cardinality(Matching(first))
            /\ first.result.deletedCount = 0
            /\ second.result.deletedCount = 0

\* Two strict syncs of directory a a day apart: both report 2 synced, and
\* the two records are still due at the instant of the first.
C20_Witness ==
    /\ Len(budget.log) = 2
    /\ now = Time(1)
    /\ LET first == budget.log[1]
           second == budget.log[2]
       IN  /\ first.root = "a" /\ second.root = "a"
           /\ first.strict /\ second.strict
           /\ first.before = {}
           /\ second.tree = first.tree
           /\ second.after = first.after
           /\ Cardinality(second.after) = 2
           /\ \A r \in second.after : r.due_date = Time(0)
           /\ first.result.synced = 2 /\ second.result.synced = 2

---------------------------------------------------------------------------
(* The commands' error handling.                                           *)

\* The step is the fetch of a `review` command.
FetchStep ==
    /\ sess.pc = "idle"
    /\ last'.op = "review"
    /\ last'.seq = budget.ops
    /\ budget'.ops = budget.ops + 1

\* C23: the query of `review` finds nothing exactly when no note has
\* dueAt <= now (with --any: when the store is empty); the command then
\* prints the message of the case and returns nil, no session is open
\* afterwards (so no question is asked of the provider and neither
\* UpdateSRSData nor UpdateNoteSRS runs), and the store is as it was.
C23_NothingToReview ==
    [][ FetchStep =>
          /\ ~last'.found <=>
                 (IF last'.any THEN notes = {}
                  ELSE ~ \E r \in notes : TimeLE(r.due_date, now))
          /\ ~last'.found =>
                 /\ last'.err = NoError
                 /\ last'.out = (IF last'.any THEN NoNotesMessage
                                 ELSE NothingDueMessage)
                 /\ sess'.pc = "idle"
                 /\ sess'.note = NoNote
                 /\ notes' = notes
                 /\ srsWritten' = srsWritten ]_vars

\* `review` on a store whose two notes were synced and one of them rated:
\* that one is not due; here neither is.
C23_Witness ==
    /\ last.op = "review"
    /\ ~last.any
    /\ ~last.found
    /\ last.out = NothingDueMessage
    /\ notes # {}
    /\ sess = Idle

\* A step of the walk on which os.Lstat fails.
WalkFails == sync.pc = "walk" /\ last'.op = "importFailed"

\* C28: when the enumeration of a sync fails, the import returns the walk
\* error without the cleanup pass: that step deletes and changes no row,
\* so the upserts made before the failure stay, and the run is over.  A
\* row leaves the store only in the summary step of a strict run.
C28_FailedWalkSkipsCleanup ==
    [][ /\ WalkFails =>
            /\ last'.err = WalkError
            /\ notes' = notes
            /\ sync' = NoSync
        /\ (\E r \in notes : \A q \in notes' : q.filename # r.filename) =>
            /\ last'.op = "importDone"
            /\ last'.strict ]_vars

\* A strict run that upserted a note, then failed while a stored row was
\* not among the files found; both rows are in the store afterwards.
C28_Witness ==
    /\ last.op = "importFailed" /\ last.strict /\ last.synced > 0
    /\ \E r \in notes : r.filename = last.path
    /\ Cardinality(notes) > 1

\* C30: an UpdateNoteSRS issued for a note the session fetched with
\* filename P changes the due_date, interval and ease_factor of no stored
\* row whose filename differs from P, also when a cleanup pass deleted the
\* fetched note and new notes were inserted before the rating was stored.
C30_RatingStaysWithItsPath ==
    [][ RateStep =>
          \A r \in notes, q \in notes' :
              (q.filename = r.filename /\ r.filename # sess.note.filename)
                  => Schedule(q) = Schedule(r) ]_vars

\* C29: when no note is due, mix prints the 'No notes are due for review'
\* line and returns nil without a session: it announces no session (of 0
\* notes), sends the provider nothing and updates no schedule.
C29_MixNothingDue ==
    (last.op = "mix" /\ last.queryErr = NoError /\ last.due = {}) =>
        /\ mix.out = <<Line(NothingDueMessage, 0)>>
        /\ last.err = NoError
        /\ mix.pc = "idle"
        /\ mix.calls = 0
        /\ srsWritten = {}

\* The teach loop has just handled a special command that continues the
\* session, and the session goes on.
AfterContinuingCommand ==
    /\ last.op = "ProcessSpecialCommand"
    /\ last.isSpecial /\ last.shouldContinue /\ last.err = NoError
    /\ teach.pc # "idle"

\* C24: a special command that continues the teach session (help, ?, note,
\* show note, explain <topic>) is not added to the history as a user
\* message, and from its handling to the next prompt the loop sends no
\* further chat request and appends no further assistant message.
C24_CommandReturnsToPrompt ==
    [][ /\ (last'.op = "ProcessSpecialCommand" /\ last'.isSpecial) =>
              \A i \in 1..Len(teach'.messages) :
                  teach'.messages[i] # Message("user", <<last'.input>>)
        /\ (AfterContinuingCommand /\ teach' # teach) =>
              /\ teach'.requests = teach.requests
              /\ teach'.messages = teach.messages ]_vars

\* C25: when a self-test or a reflection started from a phase menu ends
\* (quit, exit, or no to continuing), the menu is shown again; and the
\* phase ends, without an error, only by the menu's 'Exit phase' option.
C25_ModeReturnsToMenu ==
    [][ /\ last'.op = "modeEnded" =>
              /\ workflow'.pc = "menu"
              /\ workflow'.menus = workflow.menus + 1
        /\ (workflow.pc # "idle" /\ workflow'.pc = "idle"
               /\ last'.err = NoError) =>
              last'.op = "exitPhase" ]_vars

\* The calls of GetDB that have returned to their callers.
Returned == {c \in Callers : getdb.callers[c].pc = "back"}

Result(c) == getdb.callers[c].result[1]

\* C21: however many goroutines call GetDB, at once or one after another,
\* the initialization (open, ping, create tables) is started at most once,
\* every call returns the same handle, and no call returns before the
\* initialization has returned: with no failure the handle a caller gets
\* has been opened, pinged and given its table.
C21_OneInitializedHandle ==
    /\ getdb.inits <= 1
    /\ Cardinality({c \in Callers : getdb.callers[c].ran}) <= 1
    /\ \A c \in Returned :
          /\ Result(c).once = "done"
          /\ Result(c).handle = getdb.dbInstance
          /\ \A d \in Returned : Result(d).handle = Result(c).handle
          /\ Result(c).failed = "" =>
                /\ Result(c).handle = "db"
                /\ Result(c).done =
                       {InitSteps[i] : i \in 1..Len(InitSteps)}

\* Every goroutine has its handle, and all but one of them did not run the
\* initialization.
C21_Witness ==
    /\ Returned = Callers
    /\ \E c \in Callers : getdb.callers[c].ran
    /\ \E c \in Callers :
          ~getdb.callers[c].ran /\ Result(c).handle = "db"

\* C22: if the initialization fails (open, ping or create tables), no call
\* of GetDB in the process, the one that ran the initialization or a later
\* one, returns to its caller with a nil error.
C22_FailedInitIsFatal ==
    getdb.failed # "" => \A c \in Returned : Result(c).err # NoError

=============================================================================
